---- MODULE Spec2Model ----
(***************************************************************************)
(* Model of promptify.prompter.nlp_prompter.Prompter: template loading,    *)
(* variable analysis, prompt rendering and the cached fit loop.            *)
(*                                                                         *)
(* Python strings are TLA+ strings; Python dicts are functions whose       *)
(* domain is the key set; an optional value (None or a value) is a         *)
(* sequence of length 0 (None) or 1.                                       *)
(***************************************************************************)
EXTENDS Integers, Sequences, FiniteSets, TLC

\* ------------------------------------------------------------------ bounds
MaxMessages == 2
MaxRuns == 2
MaxParses == 2

\* ------------------------------------------------------- generic helpers
None == <<>>
Some(v) == <<v>>
EmptyDict == [k \in {} |-> ""]
Range(s) == {s[i] : i \in 1..Len(s)}
Min(a, b) == IF a < b THEN a ELSE b

\* ------------------------------------------------------ string routines
Whitespace == {" ", "\n", "\t"}

RECURSIVE LStrip(_)
LStrip(s) ==
    IF Len(s) > 0 /\ SubSeq(s, 1, 1) \in Whitespace
    THEN LStrip(SubSeq(s, 2, Len(s)))
    ELSE s

RECURSIVE RStrip(_)
RStrip(s) ==
    IF Len(s) > 0 /\ SubSeq(s, Len(s), Len(s)) \in Whitespace
    THEN RStrip(SubSeq(s, 1, Len(s) - 1))
    ELSE s

\* str.strip()
Strip(s) == RStrip(LStrip(s))

\* str.find(pat, i) with 1-based positions; 0 when pat does not occur
RECURSIVE IndexOf(_, _, _)
IndexOf(s, pat, i) ==
    IF i + Len(pat) - 1 > Len(s) THEN 0
    ELSE IF SubSeq(s, i, i + Len(pat) - 1) = pat THEN i
    ELSE IndexOf(s, pat, i + 1)

\* str.rfind("/") with 1-based positions; 0 when there is no slash
RECURSIVE LastSlash(_, _)
LastSlash(s, i) ==
    IF i = 0 THEN 0
    ELSE IF SubSeq(s, i, i) = "/" THEN i
    ELSE LastSlash(s, i - 1)

\* os.path.split(path) -> (head, tail)
PathSplit(path) ==
    LET k == LastSlash(path, Len(path))
    IN  IF k = 0 THEN <<"", path>>
        ELSE <<SubSeq(path, 1, Min(k - 1, Len(path))), SubSeq(path, k + 1, Len(path))>>

\* os.path.join(a, b)
PathJoin(a, b) == a \o "/" \o b

\* ------------------------------------------------ the template engine
Lit(t) == [var |-> FALSE, text |-> t]
Var(n) == [var |-> TRUE, text |-> n]

\* jinja2 compilation of a source made of literal text and {{ name }}
\* expressions: the sequence of literal and variable nodes
RECURSIVE Parse(_)
Parse(s) ==
    LET o == IndexOf(s, "{{", 1)
    IN  IF o = 0
        THEN IF s = "" THEN <<>> ELSE <<Lit(s)>>
        ELSE LET c == IndexOf(s, "}}", o + 2)
                 head == IF o > 1 THEN <<Lit(SubSeq(s, 1, o - 1))>> ELSE <<>>
             IN  head \o <<Var(Strip(SubSeq(s, o + 2, c - 1)))>>
                      \o Parse(SubSeq(s, c + 2, Len(s)))

\* jinja2.meta.find_undeclared_variables
FindUndeclaredVariables(nodes) == {n.text : n \in {m \in Range(nodes) : m.var}}

\* Template.render(**bag): an undefined name renders as the empty string
RECURSIVE RenderNodes(_, _)
RenderNodes(nodes, bag) ==
    IF nodes = <<>> THEN ""
    ELSE LET n == Head(nodes)
             piece == IF ~n.var THEN n.text
                      ELSE IF n.text \in DOMAIN bag THEN bag[n.text] ELSE ""
         IN  piece \o RenderNodes(Tail(nodes), bag)

\* -------------------------------------------- the world outside the class
ModelName == "gpt-3.5-turbo"
TemplatesDir == "/pkg/promptify/prompts/text2text"

HelloA == "/a/hello.jinja"
HelloB == "/b/hello.jinja"
Ner == "ner.jinja"
Qa == "qa.jinja"
InlineSrc == "Hi {{ topic }}"

\* the regular files of the file system and their contents
FileSystem ==
    (HelloA :> "Hello {{ text_input }}, topic: {{ topic }}")
    @@ (HelloB :> " {{ label }}: {{ topic }}\n")
    @@ (PathJoin(PathJoin(TemplatesDir, "ner"), "ner.jinja")
            :> "{{ description }}\nText: {{ text_input }}\n")
    @@ (PathJoin(PathJoin(TemplatesDir, "qa"), "qa.jinja")
            :> "Q: {{ text_input }}")

\* os.listdir(templates_dir)
BuiltinFolders == {"ner", "qa"}

\* the metadata json of each built-in folder
MetadataFile ==
    ("ner" :> << [models |-> {"text-davinci-003"}, file_name |-> "ner_davinci.jinja"],
                 [models |-> {"gpt-3.5-turbo", "gpt-4"}, file_name |-> "ner.jinja"] >>)
    @@ ("qa" :> << [models |-> {"text-davinci-003"}, file_name |-> "qa.jinja"] >>)

\* ------------------------------------------------------------- inputs
References == {HelloA, HelloB, Ner, Qa, InlineSrc}
InlineReferences == {InlineSrc, HelloA}
TextInputs == {"world"}
CallerBags ==
    { EmptyDict,
      ("topic" :> "ai"),
      ("label" :> "tag"),
      ("topic" :> "ai") @@ ("label" :> "tag") }
NewDefaults ==
    { ("topic" :> "ml"), ("topic" :> "db") @@ ("label" :> "cat") }
ModelOutputs == {"yes", "no"}
InitAllowed == { <<>>, <<"label">> }
InitDefaults == { EmptyDict, ("topic" :> "ml") }
\* the inputs of the fit runs
FitReferences == {HelloA, Qa, InlineSrc}
FitBags == { EmptyDict, ("topic" :> "ai") }

\* every template source of this world, compiled once
Sources == {FileSystem[p] : p \in DOMAIN FileSystem} \cup References
Compiled == [s \in Sources |-> Parse(s)]

\* Template(source) / environment.get_template / environment.parse
Compile(source) == Compiled[source]

\* ---------------------------------------------------------------- state
VARIABLES
    loaded_templates,           \* self.loaded_templates
    prompt_variables_map,       \* self.prompt_variables_map
    default_variable_values,    \* self.default_variable_values
    allowed_missing_variables,  \* self.allowed_missing_variables
    cache_prompt,               \* self.cache_prompt
    prompt_cache,               \* self.prompt_cache
    conversation,               \* self.conversation["messages"]
    history,                    \* the messages in the history json on disk
    parses,                     \* reference -> number of template compilations
    model_runs,                 \* prompt -> calls / returns of execute_with_retry
    last                        \* the most recent call and what it returned

vars == << loaded_templates, prompt_variables_map, default_variable_values,
           allowed_missing_variables, cache_prompt, prompt_cache, conversation,
           history, parses, model_runs, last >>

NoCall ==
    [ op |-> "__init__", template |-> "", from_string |-> FALSE,
      kwargs |-> EmptyDict, text_input |-> "", new_defaults |-> EmptyDict,
      error |-> "", missing |-> {}, handle |-> None, variables |-> None,
      prompt |-> None, variables_dict |-> None, outputs |-> None,
      parsed |-> FALSE, executed |-> FALSE, appended |-> FALSE, wrote |-> FALSE ]

BaselineAllowed == << "examples", "description", "output_format" >>

\* Prompter.__init__ with the given constructor arguments
Construct(allowed_ext, defaults, cache) ==
    /\ loaded_templates = EmptyDict
    /\ prompt_variables_map = EmptyDict
    /\ default_variable_values = defaults
    /\ allowed_missing_variables = BaselineAllowed \o allowed_ext
    /\ cache_prompt = cache
    /\ prompt_cache = EmptyDict
    /\ conversation = <<>>
    /\ history = <<>>
    /\ parses = [r \in References |-> 0]
    /\ model_runs = EmptyDict
    /\ last = [NoCall EXCEPT !.wrote = TRUE]

\* ----------------------------------------------------------- operations

\* Prompter.get_metadata: the first metadata entry that lists the model,
\* extended with the folder of the template; None when no entry matches
GetMetadata(model_name, template_name, template_path) ==
    LET name == SubSeq(template_name, 1, IndexOf(template_name, ".jinja", 1) - 1)
        meta_content == MetadataFile[name]
        hits == {i \in 1..Len(meta_content) : model_name \in meta_content[i].models}
        first == CHOOSE i \in hits : \A j \in hits : i <= j
    IN  IF hits = {} THEN None
        ELSE Some([ models |-> meta_content[first].models,
                    file_name |-> meta_content[first].file_name,
                    file_path |-> PathJoin(template_path, name) ])

\* Prompter.verify_template_path: os.path.isfile
VerifyTemplatePath(templates_path) == templates_path \in DOMAIN FileSystem

\* the dict load_template stores; "instance" tells one compiled Template
\* object of a reference from the next
TemplateData(name, dir, env, source, n) ==
    [ template_name |-> name, template_dir |-> dir, environment |-> env,
      template |-> Compile(source), instance |-> n ]

\* a cache test that never finds the reference
IsLoaded_never(loaded, template) == FALSE

\* load_template's cache test: template in self.loaded_templates
IsLoaded(loaded, template) == template \in DOMAIN loaded

\* Prompter.load_template, as a function of the cache and the compile
\* counters: the error raised (if any), the handle returned and the new cache
LoadTemplate(loaded, np, template, from_string) ==
    LET count == Min(np[template] + 1, MaxParses)
        keep == [ error |-> "", handle |-> None, loaded |-> loaded,
                  parses |-> np, parsed |-> FALSE ]
        store(data) == [ error |-> "", handle |-> Some(data),
                         loaded |-> (template :> data) @@ loaded,
                         parses |-> [np EXCEPT ![template] = count],
                         parsed |-> TRUE ]
        all_folders == {folder \o ".jinja" : folder \in BuiltinFolders}
    IN  IF IsLoaded(loaded, template)
        THEN [keep EXCEPT !.handle = Some(loaded[template])]
        ELSE IF from_string
        THEN store(TemplateData("from_string", None, None, template, count))
        ELSE IF template \in all_folders
        THEN LET meta_data == GetMetadata(ModelName, template, TemplatesDir)
             IN  IF meta_data = None
                 THEN [keep EXCEPT !.error = "NoMetadata"]
                 ELSE LET template_name == meta_data[1].file_name
                          template_dir == meta_data[1].file_path
                      IN  store(TemplateData(template_name, Some(template_dir),
                                  Some(template_dir),
                                  FileSystem[PathJoin(template_dir, template_name)],
                                  count))
        ELSE IF ~VerifyTemplatePath(template)
        THEN [keep EXCEPT !.error = "PathNotFound"]
        ELSE LET parts == PathSplit(template)
             IN  store(TemplateData(parts[2], Some(parts[1]), Some(parts[1]),
                                    FileSystem[PathJoin(parts[1], parts[2])], count))

\* Prompter.get_template_variables, as a function of prompt_variables_map:
\* the set returned and the new map
GetTemplateVariables(pvm, environment, template_name) ==
    IF template_name \in DOMAIN pvm
    THEN [ variables |-> pvm[template_name], pvm |-> pvm ]
    ELSE LET template_source == FileSystem[PathJoin(environment[1], template_name)]
             undeclared_variables == FindUndeclaredVariables(Compile(template_source))
         IN  [ variables |-> undeclared_variables,
               pvm |-> (template_name :> undeclared_variables) @@ pvm ]

\* kwargs.get("from_string", False)
FromStringFlag(kwargs) ==
    IF "from_string" \in DOMAIN kwargs THEN kwargs["from_string"] = "True" ELSE FALSE

\* a renderer that forgets to inject text_input
InjectTextInput_skip(kwargs, text_input) == kwargs

\* kwargs["text_input"] = text_input
InjectTextInput(kwargs, text_input) == ("text_input" :> text_input) @@ kwargs

\* a check that reports only one of the missing variables
VariablesMissing_first(variables, kwargs, allowed, defaults) ==
    LET all == { variable \in variables :
                   /\ variable \notin DOMAIN kwargs
                   /\ variable \notin Range(allowed)
                   /\ variable \notin DOMAIN defaults }
    IN  IF all = {} THEN {} ELSE {CHOOSE v \in all : TRUE}

\* the variables generate_prompt reports missing
VariablesMissing(variables, kwargs, allowed, defaults) ==
    { variable \in variables :
        /\ variable \notin DOMAIN kwargs
        /\ variable \notin Range(allowed)
        /\ variable \notin DOMAIN defaults }

\* kwargs.update(self.default_variable_values)
MergeDefaults(kwargs, defaults) == defaults @@ kwargs

\* a snapshot taken after the defaults were merged into the bag
VariablesDict_merged(variables, kwargs) ==
    LET merged == default_variable_values @@ kwargs
    IN  [v \in variables |-> IF v \in DOMAIN merged THEN Some(merged[v]) ELSE None]

\* {v: kwargs.get(v, None) for v in variables}
VariablesDict(variables, kwargs) ==
    [v \in variables |-> IF v \in DOMAIN kwargs THEN Some(kwargs[v]) ELSE None]

\* loader["template"].render(**kwargs).strip()
Render(template, kwargs) == Strip(RenderNodes(template, kwargs))

\* what generate_prompt yields once load_template is done: the error raised
\* (if any), the pair returned and the new caches
RenderResult(ld) ==
    [ error |-> ld.error, missing |-> {}, handle |-> ld.handle,
      variables |-> None, prompt |-> None, variables_dict |-> None,
      loaded |-> ld.loaded, parses |-> ld.parses,
      pvm |-> prompt_variables_map, parsed |-> ld.parsed ]

\* generate_prompt on a template with an environment: gv is what
\* get_template_variables returned
RenderAnalysed(ld, kwargs, gv, variables_missing) ==
    IF variables_missing # {}
    THEN [RenderResult(ld) EXCEPT !.error = "MissingVariables",
                                  !.missing = variables_missing,
                                  !.variables = Some(gv.variables),
                                  !.pvm = gv.pvm]
    ELSE [RenderResult(ld) EXCEPT
            !.variables = Some(gv.variables),
            !.pvm = gv.pvm,
            !.variables_dict = Some(VariablesDict(gv.variables, kwargs)),
            !.prompt = Some(Render(ld.handle[1].template,
                                   MergeDefaults(kwargs, default_variable_values)))]

\* generate_prompt after load_template returned ld, on the bag kwargs that
\* holds text_input
RenderLoaded(ld, kwargs, gv) ==
    IF ld.error # "" THEN RenderResult(ld)
    ELSE IF ld.handle[1].environment # None
    THEN RenderAnalysed(ld, kwargs, gv,
             VariablesMissing(gv.variables, kwargs, allowed_missing_variables,
                              default_variable_values))
    ELSE [RenderResult(ld) EXCEPT
            !.variables_dict = Some(("data" :> None)),
            !.prompt = Some(Render(ld.handle[1].template,
                                   MergeDefaults(kwargs, default_variable_values)))]

\* the get_template_variables call of generate_prompt
AnalyseLoaded(ld) ==
    GetTemplateVariables(prompt_variables_map, ld.handle[1].environment,
                         ld.handle[1].template_name)

\* generate_prompt from its second statement on
RenderWith(ld, kwargs) == RenderLoaded(ld, kwargs, AnalyseLoaded(ld))

\* Prompter.generate_prompt, as a function of the state it reads
GeneratePrompt(template, text_input, kwargs_in) ==
    RenderWith(LoadTemplate(loaded_templates, parses, template,
                            FromStringFlag(kwargs_in)),
               InjectTextInput(kwargs_in, text_input))

\* the kwargs of a call: the caller's variables and, when given, from_string
Kwargs(bag, from_string) ==
    IF from_string THEN ("from_string" :> "True") @@ bag ELSE bag

\* conversation_utils.create_message
CreateMessage(template, prompt, raw_output, parsed_output, variables_dict) ==
    [ template |-> template, prompt |-> prompt, raw_output |-> raw_output,
      parsed_output |-> parsed_output, variables |-> variables_dict ]

\* model.model_output applied to the one response of a one-prompt run
ModelOutput(o) == [ text |-> o, parsed |-> [data |-> [completion |-> o]] ]

RECURSIVE SumCalls(_, _)
SumCalls(runs, S) ==
    IF S = {} THEN 0
    ELSE LET p == CHOOSE q \in S : TRUE
         IN  runs[p].calls + SumCalls(runs, S \ {p})

\* the number of execute_with_retry calls so far
TotalRuns == SumCalls(model_runs, DOMAIN model_runs)

RunOf(p) == IF p \in DOMAIN model_runs THEN model_runs[p]
            ELSE [calls |-> 0, returns |-> 0]

\* ---------------------------------------------------------------- actions

\* an update that keeps the old value of a key it already has
UpdateDefaultVariableValues_keep(new_defaults) ==
    /\ default_variable_values' = default_variable_values @@ new_defaults
    /\ last' = [NoCall EXCEPT !.op = "update_default_variable_values",
                              !.new_defaults = new_defaults]
    /\ UNCHANGED << loaded_templates, prompt_variables_map,
                    allowed_missing_variables, cache_prompt, prompt_cache,
                    conversation, history, parses, model_runs >>

UpdateDefaultVariableValues(new_defaults) ==
    /\ default_variable_values' = new_defaults @@ default_variable_values
    /\ last' = [NoCall EXCEPT !.op = "update_default_variable_values",
                              !.new_defaults = new_defaults]
    /\ UNCHANGED << loaded_templates, prompt_variables_map,
                    allowed_missing_variables, cache_prompt, prompt_cache,
                    conversation, history, parses, model_runs >>

\* the effect of a load_template call that returned ld
LoadTemplateStep(template, from_string, ld) ==
    /\ parses[template] < MaxParses
    /\ loaded_templates' = ld.loaded
    /\ parses' = ld.parses
    /\ last' = [NoCall EXCEPT !.op = "load_template", !.template = template,
                              !.from_string = from_string, !.error = ld.error,
                              !.handle = ld.handle, !.parsed = ld.parsed]
    /\ UNCHANGED << prompt_variables_map, default_variable_values,
                    allowed_missing_variables, cache_prompt, prompt_cache,
                    conversation, history, model_runs >>

LoadTemplateCall(template, from_string) ==
    LoadTemplateStep(template, from_string,
        LoadTemplate(loaded_templates, parses, template, from_string))

\* get_template_variables called on a loaded file template, as
\* get_multiple_template_variables does
GetTemplateVariablesStep(template, h, gv) ==
    /\ prompt_variables_map' = gv.pvm
    /\ last' = [NoCall EXCEPT !.op = "get_template_variables",
                              !.template = template,
                              !.handle = Some(h),
                              !.variables = Some(gv.variables)]
    /\ UNCHANGED << loaded_templates, default_variable_values,
                    allowed_missing_variables, cache_prompt, prompt_cache,
                    conversation, history, parses, model_runs >>

GetTemplateVariablesCall(template) ==
    /\ template \in DOMAIN loaded_templates
    /\ loaded_templates[template].environment # None
    /\ GetTemplateVariablesStep(template, loaded_templates[template],
           GetTemplateVariables(prompt_variables_map,
                                loaded_templates[template].environment,
                                loaded_templates[template].template_name))

\* what a call of generate_prompt or fit shows of its render step
RenderCall(op, template, text_input, kwargs, from_string, gp) ==
    [NoCall EXCEPT !.op = op, !.template = template,
                   !.from_string = from_string, !.kwargs = kwargs,
                   !.text_input = text_input, !.error = gp.error,
                   !.missing = gp.missing, !.handle = gp.handle,
                   !.variables = gp.variables, !.prompt = gp.prompt,
                   !.variables_dict = gp.variables_dict, !.parsed = gp.parsed]

\* the effect of a generate_prompt call that yielded gp
GeneratePromptStep(template, text_input, kwargs, from_string, gp) ==
    /\ parses[template] < MaxParses
    /\ loaded_templates' = gp.loaded
    /\ parses' = gp.parses
    /\ prompt_variables_map' = gp.pvm
    /\ last' = RenderCall("generate_prompt", template, text_input, kwargs,
                          from_string, gp)
    /\ UNCHANGED << default_variable_values, allowed_missing_variables,
                    cache_prompt, prompt_cache, conversation, history,
                    model_runs >>

GeneratePromptCall(template, text_input, bag, from_string) ==
    GeneratePromptStep(template, text_input, Kwargs(bag, from_string), from_string,
        GeneratePrompt(template, text_input, Kwargs(bag, from_string)))

\* a fit that records the failed render in the transcript before raising
FitRenderFailed_logged(call) ==
    /\ conversation' = Append(conversation,
            [ template |-> call.template, prompt |-> "", raw_output |-> "",
              parsed_output |-> "", variables |-> EmptyDict ])
    /\ history' = conversation'
    /\ last' = [call EXCEPT !.appended = TRUE, !.wrote = TRUE]
    /\ UNCHANGED << prompt_cache, model_runs >>

\* fit, when generate_prompt raised: the exception leaves fit at once
FitRenderFailed(call) ==
    /\ last' = call
    /\ UNCHANGED << prompt_cache, conversation, history, model_runs >>

\* a cache test that never hits
CacheHit_never(prompt) == FALSE

\* fit's cache test: self.cache_prompt and prompt in self.prompt_cache
CacheHit(prompt) == cache_prompt /\ prompt \in DOMAIN prompt_cache

\* fit, on a cache hit: the cached outputs are returned
FitCached(call, prompt) ==
    /\ last' = [call EXCEPT !.outputs = Some(prompt_cache[prompt])]
    /\ UNCHANGED << prompt_cache, conversation, history, model_runs >>

\* fit, when execute_with_retry raises
FitModelRaised(call, prompt) ==
    /\ model_runs' = (prompt :> [RunOf(prompt) EXCEPT !.calls = @ + 1]) @@ model_runs
    /\ last' = [call EXCEPT !.error = "ModelError", !.executed = TRUE]
    /\ UNCHANGED << prompt_cache, conversation, history >>

\* fit, when the model returns: cache, append the message, rewrite the file
FitExecuted(call, template, prompt, variables_dict, out) ==
    LET outputs == << ModelOutput(out) >>
        message == CreateMessage(template, prompt, outputs[1].text,
                                 outputs[1].parsed.data.completion, variables_dict)
    IN  /\ model_runs' = (prompt :> [calls |-> RunOf(prompt).calls + 1,
                                     returns |-> RunOf(prompt).returns + 1])
                         @@ model_runs
        /\ prompt_cache' = IF cache_prompt THEN (prompt :> outputs) @@ prompt_cache
                           ELSE prompt_cache
        /\ conversation' = Append(conversation, message)
        /\ history' = conversation'
        /\ last' = [call EXCEPT !.outputs = Some(outputs), !.executed = TRUE,
                                !.appended = TRUE, !.wrote = TRUE]

\* fit after generate_prompt yielded gp; call is what the call shows so far
FitStep(template, raises, out, gp, call, runs) ==
    /\ parses[template] < MaxParses
    /\ runs => TotalRuns < MaxRuns
    /\ (runs /\ ~raises) => Len(conversation) < MaxMessages
    /\ loaded_templates' = gp.loaded
    /\ parses' = gp.parses
    /\ prompt_variables_map' = gp.pvm
    /\ UNCHANGED << default_variable_values, allowed_missing_variables,
                    cache_prompt >>
    /\ IF gp.error # "" THEN FitRenderFailed(call)
       ELSE IF CacheHit(gp.prompt[1]) THEN FitCached(call, gp.prompt[1])
       ELSE IF raises THEN FitModelRaised(call, gp.prompt[1])
       ELSE FitExecuted(call, template, gp.prompt[1], gp.variables_dict[1], out)

FitRendered(template, text_input, kwargs, from_string, raises, out, gp) ==
    FitStep(template, raises, out, gp,
            RenderCall("fit", template, text_input, kwargs, from_string, gp),
            gp.error = "" /\ ~CacheHit(gp.prompt[1]))

\* Prompter.fit; the model either raises out of execute_with_retry or returns
\* the response whose parsed output is "out" (the verbose print changes no
\* state and is left out)
Fit(template, text_input, bag, from_string, raises, out) ==
    FitRendered(template, text_input, Kwargs(bag, from_string), from_string,
                raises, out,
                GeneratePrompt(template, text_input, Kwargs(bag, from_string)))

\* the render runs: loads, analyses, renders and default updates
Init ==
    \E ext \in InitAllowed, d \in InitDefaults : Construct(ext, d, FALSE)

Next ==
    \/ \E d \in NewDefaults : UpdateDefaultVariableValues(d)
    \/ \E t \in References, fs \in BOOLEAN :
          (fs => t \in InlineReferences) /\ LoadTemplateCall(t, fs)
    \/ \E t \in References : GetTemplateVariablesCall(t)
    \/ \E t \in References, x \in TextInputs, b \in CallerBags, fs \in BOOLEAN :
          (fs => t \in InlineReferences) /\ GeneratePromptCall(t, x, b, fs)

Spec == Init /\ [][Next]_vars

\* the fit runs: renders, fits and default updates on a Prompter with or
\* without the prompt cache
InitFit ==
    \E cache \in BOOLEAN : Construct(<<>>, EmptyDict, cache)

NextFit ==
    \/ \E d \in NewDefaults : UpdateDefaultVariableValues(d)
    \/ \E t \in FitReferences, x \in TextInputs, b \in FitBags :
          GeneratePromptCall(t, x, b, FALSE)
    \/ \E t \in FitReferences, x \in TextInputs, b \in FitBags,
          raises \in BOOLEAN, out \in ModelOutputs :
          Fit(t, x, b, FALSE, raises, out)

SpecFit == InitFit /\ [][NextFit]_vars

\* ------------------------------------------------------------ properties

\* C1: a name in both the caller bag and the defaults table is rendered with
\* the caller's value: the prompt generate_prompt returns is the template
\* rendered with the defaults filling only the names the caller left out.
C1_CallerValueWins ==
    (last.op = "generate_prompt" /\ last.error = "") =>
        last.prompt =
            Some(Strip(RenderNodes(last.handle[1].template,
                    (("text_input" :> last.text_input) @@ last.kwargs)
                        @@ default_variable_values)))

\* C2: on a file template whose required set is V (the set the analyzer holds
\* for the handle), generate_prompt raises the missing-variables error exactly
\* when some v in V is in none of the caller bag (text_input included), the
\* defaults and the allowed-missing list; the error names all those v and no
\* other; the allowed-missing list contains the three baseline names.
C2_MissingExactlyUncovered ==
    (last.op = "generate_prompt" /\ last.handle # None
        /\ last.handle[1].environment # None) =>
        LET V == prompt_variables_map[last.handle[1].template_name]
            supplied == DOMAIN last.kwargs \cup {"text_input"}
            uncovered == { v \in V : /\ v \notin supplied
                                     /\ v \notin DOMAIN default_variable_values
                                     /\ v \notin Range(allowed_missing_variables) }
        IN  /\ (last.error = "MissingVariables") <=> (uncovered # {})
            /\ last.missing = uncovered
            /\ {"examples", "description", "output_format"}
                   \subseteq Range(allowed_missing_variables)

\* C2 witness: a render failed naming two missing variables at once
C2_TwoMissingNamed ==
    /\ last.op = "generate_prompt"
    /\ last.error = "MissingVariables"
    /\ Cardinality(last.missing) = 2

\* C3: a successful generate_prompt on a file template whose required set is
\* V returns resolvedVariables with exactly the keys V, each mapped to the
\* caller's value or to None, whatever the defaults hold; and a caller bag
\* that contains all of V makes the render succeed.
C3_ResolvedVariablesAreCallerValues ==
    (last.op = "generate_prompt" /\ last.handle # None
        /\ last.handle[1].environment # None) =>
        LET V == prompt_variables_map[last.handle[1].template_name]
            bag == ("text_input" :> last.text_input) @@ last.kwargs
        IN  /\ (V \subseteq DOMAIN bag) => last.error = ""
            /\ last.error = "" =>
                 /\ last.variables_dict # None
                 /\ DOMAIN last.variables_dict[1] = V
                 /\ \A v \in V :
                      last.variables_dict[1][v] =
                          IF v \in DOMAIN bag THEN <<bag[v]>> ELSE <<>>

\* C3 witness: topic was filled by a default only: the prompt shows the
\* default and resolvedVariables reports None
C3_DefaultFilledReportedNone ==
    /\ last.op = "generate_prompt"
    /\ last.error = ""
    /\ last.template = HelloA
    /\ last.handle[1].environment # None
    /\ "topic" \notin DOMAIN last.kwargs
    /\ "topic" \in DOMAIN default_variable_values
    /\ last.variables_dict[1]["topic"] = None
    /\ last.prompt = Some("Hello world, topic: ml")

\* C4 (as stated): the render, on a Prompter with empty defaults and no
\* template loaded yet, of the
\* file "Hello {{ text_input }}, topic: {{ topic }}" with text_input "world"
\* and topic "ai" returns "Hello world, topic: ai" and resolvedVariables
\* {topic: ai}, without a text_input entry.
C4_ExampleOmitsTextInput ==
    (/\ last.op = "generate_prompt"
     /\ last.template \in DOMAIN FileSystem
     /\ FileSystem[last.template] = "Hello {{ text_input }}, topic: {{ topic }}"
     /\ ~last.from_string
     /\ last.text_input = "world"
     /\ last.kwargs = ("topic" :> "ai")
     /\ default_variable_values = EmptyDict
     /\ last.parsed
     /\ DOMAIN loaded_templates = {last.template}) =>
        /\ last.error = ""
        /\ last.prompt = Some("Hello world, topic: ai")
        /\ last.variables_dict = Some(("topic" :> Some("ai")))

\* C4 (amended): the same render returns "Hello world, topic: ai" and
\* resolvedVariables {text_input: world, topic: ai}: the injected text_input
\* is a variable of the template and so an entry of resolvedVariables.
C4_ExampleReportsTextInput ==
    (/\ last.op = "generate_prompt"
     /\ last.template \in DOMAIN FileSystem
     /\ FileSystem[last.template] = "Hello {{ text_input }}, topic: {{ topic }}"
     /\ ~last.from_string
     /\ last.text_input = "world"
     /\ last.kwargs = ("topic" :> "ai")
     /\ default_variable_values = EmptyDict
     /\ last.parsed
     /\ DOMAIN loaded_templates = {last.template}) =>
        /\ last.error = ""
        /\ last.prompt = Some("Hello world, topic: ai")
        /\ last.variables_dict =
               Some(("text_input" :> Some("world")) @@ ("topic" :> Some("ai")))

\* C4 witness: the example render has happened and succeeded
C4_ExampleRendered ==
    /\ last.op = "generate_prompt"
    /\ last.template = HelloA
    /\ ~last.from_string
    /\ last.text_input = "world"
    /\ last.kwargs = ("topic" :> "ai")
    /\ default_variable_values = EmptyDict
    /\ last.parsed
    /\ DOMAIN loaded_templates = {HelloA}
    /\ last.prompt = Some("Hello world, topic: ai")

\* C5: every reference is compiled at most once; a load of a reference that is
\* already in loaded_templates returns the stored handle without compiling,
\* whatever its from_string flag; the first successful load stores the handle
\* it returns; no entry of loaded_templates is replaced or removed.
C5_LoadedOnce ==
    [][ /\ \A r \in References : parses'[r] <= 1
        /\ \A r \in DOMAIN loaded_templates :
              /\ r \in DOMAIN loaded_templates'
              /\ loaded_templates'[r] = loaded_templates[r]
        /\ last'.op \in {"load_template", "generate_prompt", "fit"} =>
              IF last'.template \in DOMAIN loaded_templates
              THEN /\ last'.handle = Some(loaded_templates[last'.template])
                   /\ ~last'.parsed
                   /\ parses' = parses
                   /\ loaded_templates' = loaded_templates
              ELSE IF last'.handle # None
              THEN /\ last'.parsed
                   /\ parses'[last'.template] = parses[last'.template] + 1
                   /\ DOMAIN loaded_templates' =
                          DOMAIN loaded_templates \cup {last'.template}
                   /\ loaded_templates'[last'.template] = last'.handle[1]
              ELSE /\ loaded_templates' = loaded_templates
                   /\ parses' = parses
      ]_vars

\* C5 witness: a call with from_string set got the cached file handle of its
\* reference, and nothing was compiled
C5_CachedAcrossFlag ==
    /\ last.op \in {"load_template", "generate_prompt"}
    /\ last.from_string
    /\ last.handle # None
    /\ last.handle[1].environment # None
    /\ ~last.parsed
    /\ parses[last.template] = 1

\* C6: generate_prompt and fit leave the defaults table unchanged, whether
\* they succeed or fail; the table changes only in
\* update_default_variable_values, which adds the new keys and overwrites the
\* keys it already has; the allowed-missing list never changes.
C6_DefaultsChangeOnlyByUpdate ==
    [][ /\ allowed_missing_variables' = allowed_missing_variables
        /\ last'.op \in {"generate_prompt", "fit"} =>
              default_variable_values' = default_variable_values
        /\ default_variable_values' # default_variable_values =>
              last'.op = "update_default_variable_values"
        /\ last'.op = "update_default_variable_values" =>
              /\ DOMAIN default_variable_values' =
                     DOMAIN default_variable_values \cup DOMAIN last'.new_defaults
              /\ \A k \in DOMAIN default_variable_values' :
                    default_variable_values'[k] =
                        IF k \in DOMAIN last'.new_defaults
                        THEN last'.new_defaults[k]
                        ELSE default_variable_values[k]
      ]_vars

\* C6 witness: a fit rendered with the default topic "ml", and a later update
\* overwrote that default with "db" and added label
C6_DefaultOverwrittenAfterFit ==
    /\ last.op = "update_default_variable_values"
    /\ conversation # <<>>
    /\ conversation[1].prompt = "Hello world, topic: ml"
    /\ default_variable_values = ("topic" :> "db") @@ ("label" :> "cat")

\* C7: generate_prompt with from_string set never raises the missing-variables
\* error, leaves prompt_variables_map unchanged and returns {data: None} as
\* resolvedVariables, in every state of the Prompter.
C7_InlineNeverAnalysed ==
    [][ (last'.op = "generate_prompt" /\ last'.from_string) =>
            /\ last'.error # "MissingVariables"
            /\ prompt_variables_map' = prompt_variables_map
            /\ last'.variables_dict = Some(("data" :> None))
      ]_vars

\* C8: a fit whose render step fails (path not found, no metadata match,
\* missing variables) executes no model, returns nothing, appends no message,
\* does not rewrite the history file and leaves prompt_cache unchanged.
C8_NoPartialFit ==
    [][ (last'.op = "fit"
            /\ last'.error \in {"PathNotFound", "NoMetadata", "MissingVariables"}) =>
            /\ ~last'.executed
            /\ ~last'.appended
            /\ ~last'.wrote
            /\ last'.outputs = None
            /\ last'.prompt = None
            /\ model_runs' = model_runs
            /\ conversation' = conversation
            /\ history' = history
            /\ prompt_cache' = prompt_cache
      ]_vars

\* C8 witness: a fit failed on missing variables on a Prompter that has a
\* transcript and a prompt cache to lose
C8_FitFailedAfterSuccess ==
    /\ last.op = "fit"
    /\ last.error = "MissingVariables"
    /\ conversation # <<>>
    /\ prompt_cache # EmptyDict

\* C9: the set get_template_variables returns for a handle, and generate_prompt
\* validates against, is the set of variables of that handle's own template,
\* also for two loaded files of the same name in different directories.
C9_AnalysedSetIsOwnSet ==
    (last.op \in {"get_template_variables", "generate_prompt"}
        /\ last.variables # None) =>
        last.variables[1] = FindUndeclaredVariables(last.handle[1].template)

\* C10 (as stated): with cache_prompt the model is called at most once per
\* prompt, a fit whose prompt is cached returns the outputs of the fit that
\* executed it, without a model call or a message, and cache entries are never
\* replaced or removed; without cache_prompt the cache stays empty and every
\* rendered fit calls the model and appends exactly one message.
C10_OneRunPerPrompt ==
    [][ /\ \A p \in DOMAIN prompt_cache :
              p \in DOMAIN prompt_cache' /\ prompt_cache'[p] = prompt_cache[p]
        /\ cache_prompt' =>
              /\ \A p \in DOMAIN model_runs' : model_runs'[p].calls <= 1
              /\ \A i \in 1..Len(conversation') :
                    /\ conversation'[i].prompt \in DOMAIN prompt_cache'
                    /\ prompt_cache'[conversation'[i].prompt][1].text =
                           conversation'[i].raw_output
              /\ (last'.op = "fit" /\ last'.prompt # None
                      /\ last'.prompt[1] \in DOMAIN prompt_cache) =>
                    /\ last'.outputs = Some(prompt_cache[last'.prompt[1]])
                    /\ ~last'.executed
                    /\ model_runs' = model_runs
                    /\ conversation' = conversation
        /\ ~cache_prompt' =>
              /\ prompt_cache' = EmptyDict
              /\ (last'.op = "fit" /\ last'.prompt # None) =>
                    /\ last'.executed
                    /\ Len(conversation') = Len(conversation) + 1
      ]_vars

\* C10 (amended): with cache_prompt the model returns at most once per prompt
\* (a call that raises caches nothing and is repeated by the next fit of that
\* prompt), a fit whose prompt is cached returns the outputs of the fit that
\* executed it, without a model call or a message, and cache entries are never
\* replaced or removed; without cache_prompt the cache stays empty and every
\* rendered fit calls the model, appending exactly one message when the model
\* returns and none when it raises.
C10_OneReturnPerPrompt ==
    [][ /\ \A p \in DOMAIN prompt_cache :
              p \in DOMAIN prompt_cache' /\ prompt_cache'[p] = prompt_cache[p]
        /\ cache_prompt' =>
              /\ \A p \in DOMAIN model_runs' : model_runs'[p].returns <= 1
              /\ \A i \in 1..Len(conversation') :
                    /\ conversation'[i].prompt \in DOMAIN prompt_cache'
                    /\ prompt_cache'[conversation'[i].prompt][1].text =
                           conversation'[i].raw_output
              /\ (last'.op = "fit" /\ last'.prompt # None
                      /\ last'.prompt[1] \in DOMAIN prompt_cache) =>
                    /\ last'.outputs = Some(prompt_cache[last'.prompt[1]])
                    /\ ~last'.executed
                    /\ model_runs' = model_runs
                    /\ conversation' = conversation
        /\ ~cache_prompt' =>
              /\ prompt_cache' = EmptyDict
              /\ (last'.op = "fit" /\ last'.prompt # None) =>
                    /\ last'.executed
                    /\ RunOf(last'.prompt[1]).calls + 1 =
                           model_runs'[last'.prompt[1]].calls
                    /\ last'.error = "" =>
                          Len(conversation') = Len(conversation) + 1
                    /\ last'.error # "" => conversation' = conversation
      ]_vars

\* C10 witness: with cache_prompt a fit returned cached outputs without a
\* model call, after an earlier call for a prompt had raised and been repeated
C10_CacheHitAfterRetry ==
    /\ cache_prompt
    /\ last.op = "fit"
    /\ last.outputs # None
    /\ ~last.executed
    /\ \E p \in DOMAIN model_runs : model_runs[p].calls = 2

====
